---- MODULE Spec2Model ----
(***************************************************************************)
(* The product routes (src/productRoutes.js) over the Product collection   *)
(* (src/unnamed/part_000) and the Cloudinary asset host.                   *)
(*                                                                         *)
(* productRoutes.js holds two versions of the router: the one with image   *)
(* handling (lines 1-257) and the plain one (lines 259-422).  A server     *)
(* mounts one of them; `variant` records which.  part_000 holds two        *)
(* versions of the schema; the collection modelled here has the fields of  *)
(* both (barcode with its unique index, createdAt, image).                 *)
(*                                                                         *)
(* Prices are integers in hundredths.  Every handler is cut at the awaits  *)
(* on the database or the asset host: between two such awaits of one       *)
(* request the steps of other requests may run.  A request enters the      *)
(* model at its first such await (validation and the synchronous code      *)
(* before it touch nothing shared).                                        *)
(*                                                                         *)
(* Mongoose is modelled by what the calls used here do: findById and       *)
(* findByIdAndDelete are atomic on one document, save() of a new document  *)
(* inserts it unless the unique index rejects it, and save() of a loaded   *)
(* document writes the paths modified since it was loaded and throws       *)
(* DocumentNotFoundError when the document is gone.                        *)
(***************************************************************************)
EXTENDS Integers, Sequences, FiniteSets, Bags, TLC

\* ---------------------------------------------------------------- bounds
MaxInFlight == 2    \* requests being handled at the same time
MaxReq      == 3    \* create, update and delete requests ever received
MaxBarcode  == 2    \* size of the space the random barcode is drawn from

\* ------------------------------------------------------- request payloads
\* A text field is a sequence of characters; an optional field is a sequence
\* of length 0 (absent) or 1.  sellPrice arrives as text: num says whether
\* the text is a decimal numeral and v is its value in hundredths.
Absent == <<>>

Num(v) == [num |-> TRUE, v |-> v]

NotANumber == [num |-> FALSE, v |-> 0]

BaseBody ==
    [itemName    |-> <<"T", "e", "a">>,
     sellPrice   |-> Num(2000),
     type        |-> "Veg",
     primaryUnit |-> Absent,
     customUnit  |-> Absent,
     gstEnabled  |-> "true"]

\* The payloads tried: the base payload with every price and tax flag, and
\* the base payload with one other field changed.
Bodies ==
    { [BaseBody EXCEPT !.sellPrice = Num(p), !.gstEnabled = g] :
          p \in {10, 2000}, g \in {"true", "false"} }
    \cup { [BaseBody EXCEPT !.itemName = n] : n \in { <<>>, <<" ", " ">> } }
    \cup { [BaseBody EXCEPT !.sellPrice = s] : s \in { Num(-100), NotANumber } }
    \cup { [BaseBody EXCEPT !.type = t] : t \in { "Beverage", "Dessert" } }
    \cup { [BaseBody EXCEPT !.primaryUnit = u] : u \in { <<"lb">> } }

\* ------------------------------------------------------------ validation
RECURSIVE TrimLeft(_)
TrimLeft(s) == IF s # <<>> /\ Head(s) = " " THEN TrimLeft(Tail(s)) ELSE s

RECURSIVE TrimRight(_)
TrimRight(s) ==
    IF s # <<>> /\ s[Len(s)] = " " THEN TrimRight(SubSeq(s, 1, Len(s) - 1)) ELSE s

Trim(s) == TrimRight(TrimLeft(s))

IsFloatMin0(x) == x.num /\ x.v >= 0

TypeAllowed(t) == t \in {"Veg", "Non-Veg"}

UnitAllowed(u) == u = Absent \/ u[1] \in {"piece", "kg", "gram", ""}

\* validationResult(req): the fields whose rule fails.
ValidationErrors(b) ==
    (IF Trim(b.itemName) = <<>> THEN {"itemName"} ELSE {})
    \cup (IF IsFloatMin0(b.sellPrice) THEN {} ELSE {"sellPrice"})
    \cup (IF TypeAllowed(b.type) THEN {} ELSE {"type"})
    \cup (IF UnitAllowed(b.primaryUnit) THEN {} ELSE {"primaryUnit"})

\* body('itemName').trim() is a sanitizer: the handler reads the trimmed name.
Sanitized(b) == [b EXCEPT !.itemName = Trim(b.itemName)]

\* ------------------------------------------------------------- GST fields
ParseFloat(x) == x.v

\* parseFloat((numer / denom).toFixed(2)) in hundredths, for numer, denom >= 0:
\* the nearest hundredth, a half rounding up.  The error of binary floating
\* point in the product sellPrice * 0.05 is not modelled.
ToFixed2(numer, denom) == (2 * numer + denom) \div (2 * denom)

\* JavaScript truthiness of a text value: only the empty text is falsy.
Truthy(s) == s # ""

\* Mongoose's Boolean cast of a text value.
CastBoolean(s) == s = "true"

\* Image router: the flag is on only for the text 'true'.
GstOnImage(b) == b.gstEnabled = "true"

\* Plain router: the flag is tested for truthiness.
GstOnPlain(b) == Truthy(b.gstEnabled)

GstOn(v, b) == IF v = "image" THEN GstOnImage(b) ELSE GstOnPlain(b)

\* What the schema stores in gstEnabled.
StoredGstEnabled(v, b) ==
    IF v = "image" THEN b.gstEnabled = "true" ELSE CastBoolean(b.gstEnabled)

GstPercentage(on) == IF on THEN 5 ELSE 0

GstAmount(on, price) == IF on THEN ToFixed2(price * 5, 100) ELSE 0

TotalPrice(price, gst) == ToFixed2(price + gst, 1)

\* The fields both routers assign on update; the image router assigns image too.
Computed(v, b) ==
    LET price == ParseFloat(b.sellPrice)
        on    == GstOn(v, b)
        gst   == GstAmount(on, price)
    IN  [sellPrice     |-> price,
         type          |-> b.type,
         primaryUnit   |-> b.primaryUnit,
         customUnit    |-> b.customUnit,
         gstEnabled    |-> StoredGstEnabled(v, b),
         gstPercentage |-> GstPercentage(on),
         gstAmount     |-> gst,
         totalPrice    |-> TotalPrice(price, gst)]

\* ------------------------------------------------------------------ state
VARIABLES
    variant,    \* which router the server mounts: "image" or "plain"
    store,      \* the Product collection: _id -> document
    assets,     \* the assets the host holds, by public id
    nextId,     \* the next _id a new document gets
    nextAsset,  \* the next name the asset host gives an upload
    clock,      \* the last reading of Date.now
    reqs,       \* the requests being handled, each at its pending await
    started,    \* create, update and delete requests received so far
    resp,       \* the response the last step sent, NoResp if it sent none
    hist        \* per _id: the values given at creation, and whether it was updated

vars == <<variant, store, assets, nextId, nextAsset, clock, reqs, started, resp, hist>>

\* Every accepted request builds at most one document and uploads at most one
\* image, so MaxReq bounds the _ids and the asset names too.
Ids == 1 .. MaxReq

Barcodes == 1 .. MaxBarcode

NoImage == <<>>

\* uploadResponse.secure_url of the n-th upload: the path segments, the last
\* one being the asset's name and its extension.
SecureUrl(n) == <<"https:", "res.cloudinary.com", "image", "upload", "products", <<n, "jpg">>>>

\* image.split('/').pop().split('.')[0]
PublicIdOf(url) == url[Len(url)][1]

\* `products/${publicId}`, the name the host knows the asset by.
AssetKey(publicId) == <<"products", publicId>>

MutableFields ==
    {"sellPrice", "type", "primaryUnit", "customUnit", "gstEnabled",
     "gstPercentage", "gstAmount", "totalPrice", "image"}

AllFields == MutableFields \cup {"itemName", "barcode", "createdAt"}

\* Date.now(): the millisecond of the previous reading c, or a later one; the
\* first reading is millisecond 1.
DateNow(c) == IF c = 0 THEN {1} ELSE {c, c + 1}

\* new Product({...}): the document a create builds.
NewProduct(v, b, imageUrl, barcode, now) ==
    LET c == Computed(v, b)
    IN  [itemName      |-> b.itemName,
         sellPrice     |-> c.sellPrice,
         type          |-> c.type,
         primaryUnit   |-> c.primaryUnit,
         customUnit    |-> c.customUnit,
         gstEnabled    |-> c.gstEnabled,
         gstPercentage |-> c.gstPercentage,
         gstAmount     |-> c.gstAmount,
         totalPrice    |-> c.totalPrice,
         barcode       |-> barcode,
         image         |-> imageUrl,
         createdAt     |-> now]

\* existingProduct.<field> = ...: the document after the update's assignments.
Assigned(v, doc, b, imageUrl) ==
    LET c == Computed(v, b)
    IN  [doc EXCEPT !.sellPrice     = c.sellPrice,
                    !.type          = c.type,
                    !.primaryUnit   = c.primaryUnit,
                    !.customUnit    = c.customUnit,
                    !.gstEnabled    = c.gstEnabled,
                    !.gstPercentage = c.gstPercentage,
                    !.gstAmount     = c.gstAmount,
                    !.totalPrice    = c.totalPrice,
                    !.image         = imageUrl]

\* Mongoose marks a path modified when the assigned value differs from the
\* value the document was loaded with.
ModifiedPaths(loaded, assigned) == { f \in MutableFields : assigned[f] # loaded[f] }

\* existingProduct.save(): Mongoose writes the modified paths only ($set).
SaveDelta(stored, doc, delta) ==
    [f \in AllFields |-> IF f \in delta THEN doc[f] ELSE stored[f]]

\* The collection without the unique index on barcode.
DuplicateKeyIgnored(s, doc) == FALSE

\* The unique index on barcode rejects an insert whose barcode is stored.
DuplicateKey(s, doc) == \E i \in DOMAIN s : s[i].barcode = doc.barcode

\* uploadToCloudinary with a catch that logs and returns null.
UploadResultSwallowed(ok, n) ==
    [threw |-> FALSE, url |-> IF ok THEN SecureUrl(n) ELSE NoImage]

\* uploadToCloudinary(file): whether it throws, and the URL it returns.
UploadResult(ok, n) ==
    [threw |-> ~ok, url |-> IF ok THEN SecureUrl(n) ELSE NoImage]

\* The destroy call without its try/catch: a failure reaches the handler's catch.
DestroyAbortsOnFailure(ok) == ~ok

\* try { await cloudinary.uploader.destroy(...) } catch { console.warn(...) }:
\* whether a failed destroy ends the handler.
DestroyAborts(ok) == FALSE

\* A lookup that ignores the id (findOne): some document, if there is any.
FindByIdIgnoringId(s, id) ==
    IF DOMAIN s # {} THEN <<s[CHOOSE i \in DOMAIN s : TRUE]>> ELSE <<>>

\* Product.findById(id): the document, or null.
FindById(s, id) == IF id \in DOMAIN s THEN <<s[id]>> ELSE <<>>

\* if (!product) return res.status(404)
NotFound(found) == found = <<>>

\* ------------------------------------------------- requests and responses
Req(op, pc, id, b, file) ==
    [op |-> op, pc |-> pc, id |-> id, body |-> b, file |-> file,
     doc |-> <<>>, delta |-> {}, upload |-> "none", url |-> NoImage,
     destroyed |-> "none"]

NoResp ==
    [op |-> "none", status |-> 0, err |-> "", id |-> 0, product |-> <<>>,
     body |-> <<>>, fields |-> {}, upload |-> "none", url |-> NoImage,
     destroyed |-> "none", list |-> <<>>]

Resp(op, status, err, id, product) ==
    [NoResp EXCEPT !.op = op, !.status = status, !.err = err, !.id = id,
                   !.product = product]

\* The response of request r, carrying what happened to its asset calls and,
\* for a create, the payload.
RespOf(r, status, err, product) ==
    [Resp(r.op, status, err, r.id, product) EXCEPT
        !.body = IF r.op = "post" THEN <<r.body>> ELSE <<>>,
        !.upload = r.upload, !.url = r.url,
        !.destroyed = r.destroyed]

InFlight == BagToSet(reqs)

Add(r) == reqs (+) SetToBag({r})

Drop(r) == reqs (-) SetToBag({r})

Replace(r, r2) == (reqs (-) SetToBag({r})) (+) SetToBag({r2})

CanAccept == started < MaxReq /\ BagCardinality(reqs) < MaxInFlight

Files == IF variant = "image" THEN BOOLEAN ELSE {FALSE}

Init ==
    /\ variant \in {"image", "plain"}
    /\ store = <<>>
    /\ assets = {}
    /\ nextId = 1
    /\ nextAsset = 1
    /\ clock = 0
    /\ reqs = EmptyBag
    /\ started = 0
    /\ resp = NoResp
    /\ hist = <<>>

\* ------------------------------------------------------- POST /products
\* validationResult(req) is not empty: 400 with the list of errors.
PostInvalid(b, file) ==
    /\ started < MaxReq
    /\ ValidationErrors(b) # {}
    /\ started' = started + 1
    /\ resp' = [Resp("post", 400, "validation", 0, <<>>) EXCEPT
                   !.body = <<b>>, !.fields = ValidationErrors(b)]
    /\ UNCHANGED <<variant, store, assets, nextId, nextAsset, clock, reqs, hist>>

\* Image router, a file is attached: the handler awaits the upload.
PostBeginUpload(b) ==
    /\ variant = "image"
    /\ CanAccept
    /\ ValidationErrors(b) = {}
    /\ reqs' = Add(Req("post", "upload", 0, b, TRUE))
    /\ started' = started + 1
    /\ resp' = NoResp
    /\ UNCHANGED <<variant, store, assets, nextId, nextAsset, clock, hist>>

\* The upload returns or throws.
PostUpload(r) ==
    /\ r \in InFlight /\ r.op = "post" /\ r.pc = "upload"
    /\ \E ok \in BOOLEAN :
         LET res == UploadResult(ok, nextAsset)
             r2  == [r EXCEPT !.upload = IF ok THEN "ok" ELSE "failed", !.url = res.url]
         IN  /\ assets' = IF ok THEN assets \cup {AssetKey(nextAsset)} ELSE assets
             /\ nextAsset' = IF ok THEN nextAsset + 1 ELSE nextAsset
             /\ IF res.threw
                   THEN /\ reqs' = Drop(r)
                        /\ resp' = RespOf(r2, 400, "Image upload failed", <<>>)
                        /\ UNCHANGED <<nextId, clock>>
                   ELSE /\ \E barcode \in Barcodes, now \in DateNow(clock) :
                              /\ reqs' = Replace(r, [r2 EXCEPT !.pc = "save", !.id = nextId,
                                   !.doc = <<NewProduct(variant, Sanitized(r.body), res.url, barcode, now)>>])
                              /\ clock' = now
                        /\ nextId' = nextId + 1
                        /\ resp' = NoResp
    /\ UNCHANGED <<variant, store, started, hist>>

\* No file (uploadToCloudinary returns null at once), or the plain router:
\* the handler builds the document and awaits its save.
PostConstruct(b) ==
    /\ CanAccept
    /\ ValidationErrors(b) = {}
    /\ \E barcode \in Barcodes, now \in DateNow(clock) :
         /\ reqs' = Add([Req("post", "save", nextId, b, FALSE) EXCEPT
                !.doc = <<NewProduct(variant, Sanitized(b), NoImage, barcode, now)>>])
         /\ clock' = now
    /\ nextId' = nextId + 1
    /\ started' = started + 1
    /\ resp' = NoResp
    /\ UNCHANGED <<variant, store, assets, nextAsset, hist>>

\* newProduct.save(): the insert reaches the collection.
PostSave(r) ==
    /\ r \in InFlight /\ r.op = "post" /\ r.pc = "save"
    /\ reqs' = Drop(r)
    /\ IF DuplicateKey(store, r.doc[1])
          THEN /\ resp' = RespOf(r, 400, "E11000 duplicate key", <<>>)
               /\ UNCHANGED <<store, hist>>
          ELSE /\ store' = (r.id :> r.doc[1]) @@ store
               /\ hist' = (r.id :> [barcode |-> r.doc[1].barcode,
                                    createdAt |-> r.doc[1].createdAt,
                                    updated |-> FALSE]) @@ hist
               /\ resp' = RespOf(r, 201, "", r.doc)
    /\ UNCHANGED <<variant, assets, nextId, nextAsset, clock, started>>

\* ---------------------------------------------------- PUT /products/:id
\* The validators run before the handler reads req.params.id.
PutInvalid(b) ==
    /\ started < MaxReq
    /\ ValidationErrors(b) # {}
    /\ started' = started + 1
    /\ resp' = [Resp("put", 400, "validation", 0, <<>>) EXCEPT
                   !.fields = ValidationErrors(b)]
    /\ UNCHANGED <<variant, store, assets, nextId, nextAsset, clock, reqs, hist>>

\* The request with its assignments made, awaiting existingProduct.save().
AtSave(r, loaded, imageUrl) ==
    LET doc == Assigned(variant, loaded, Sanitized(r.body), imageUrl)
    IN  [r EXCEPT !.pc = "save", !.doc = <<doc>>, !.delta = ModifiedPaths(loaded, doc)]

\* Product.findById(productId) answers the update.
PutFind(id, b, file) ==
    /\ CanAccept
    /\ ValidationErrors(b) = {}
    /\ LET found == FindById(store, id)
           r     == [Req("put", "find", id, b, file) EXCEPT !.doc = found]
       IN  IF NotFound(found)
              THEN /\ resp' = RespOf(r, 404, "Product not found", <<>>)
                   /\ UNCHANGED reqs
              ELSE /\ reqs' = Add(IF ~file THEN AtSave(r, found[1], found[1].image)
                                  ELSE IF found[1].image # NoImage
                                          THEN [r EXCEPT !.pc = "destroy"]
                                          ELSE [r EXCEPT !.pc = "upload"])
                   /\ resp' = NoResp
    /\ started' = started + 1
    /\ UNCHANGED <<variant, store, assets, nextId, nextAsset, clock, hist>>

\* cloudinary.uploader.destroy of the old image returns or throws.
PutDestroy(r) ==
    /\ r \in InFlight /\ r.op = "put" /\ r.pc = "destroy"
    /\ \E ok \in BOOLEAN :
         LET r2 == [r EXCEPT !.destroyed = IF ok THEN "ok" ELSE "failed"]
         IN  /\ assets' = IF ok THEN assets \ {AssetKey(PublicIdOf(r.doc[1].image))}
                                ELSE assets
             /\ IF DestroyAborts(ok)
                   THEN /\ reqs' = Drop(r)
                        /\ resp' = RespOf(r2, 400, "destroy failed", <<>>)
                   ELSE /\ reqs' = Replace(r, [r2 EXCEPT !.pc = "upload"])
                        /\ resp' = NoResp
    /\ UNCHANGED <<variant, store, nextId, nextAsset, clock, started, hist>>

\* The upload of the new image returns or throws.
PutUpload(r) ==
    /\ r \in InFlight /\ r.op = "put" /\ r.pc = "upload"
    /\ \E ok \in BOOLEAN :
         LET res == UploadResult(ok, nextAsset)
             r2  == [r EXCEPT !.upload = IF ok THEN "ok" ELSE "failed", !.url = res.url]
         IN  /\ assets' = IF ok THEN assets \cup {AssetKey(nextAsset)} ELSE assets
             /\ nextAsset' = IF ok THEN nextAsset + 1 ELSE nextAsset
             /\ IF res.threw
                   THEN /\ reqs' = Drop(r)
                        /\ resp' = RespOf(r2, 400, "Image upload failed", <<>>)
                   ELSE /\ reqs' = Replace(r, AtSave(r2, r.doc[1], res.url))
                        /\ resp' = NoResp
    /\ UNCHANGED <<variant, store, nextId, clock, started, hist>>

\* existingProduct.save() reaches the collection; a document deleted in the
\* meantime makes save throw DocumentNotFoundError.
PutSave(r) ==
    /\ r \in InFlight /\ r.op = "put" /\ r.pc = "save"
    /\ reqs' = Drop(r)
    /\ IF r.id \in DOMAIN store
          THEN /\ store' = [store EXCEPT ![r.id] = SaveDelta(@, r.doc[1], r.delta)]
               /\ hist' = [hist EXCEPT ![r.id].updated = TRUE]
               /\ resp' = RespOf(r, 200, "", r.doc)
          ELSE /\ resp' = RespOf(r, 400, "DocumentNotFoundError", <<>>)
               /\ UNCHANGED <<store, hist>>
    /\ UNCHANGED <<variant, assets, nextId, nextAsset, clock, started>>

\* ------------------------------------------------- DELETE /products/:id
\* Image router: Product.findById(productId) answers the delete.
DeleteFind(id) ==
    /\ variant = "image"
    /\ CanAccept
    /\ LET found == FindById(store, id)
           r     == [Req("delete", "find", id, <<>>, FALSE) EXCEPT !.doc = found]
       IN  IF NotFound(found)
              THEN /\ resp' = RespOf(r, 404, "Product not found", <<>>)
                   /\ UNCHANGED reqs
              ELSE /\ reqs' = Add([r EXCEPT !.pc = IF found[1].image # NoImage
                                                      THEN "destroy" ELSE "remove"])
                   /\ resp' = NoResp
    /\ started' = started + 1
    /\ UNCHANGED <<variant, store, assets, nextId, nextAsset, clock, hist>>

\* cloudinary.uploader.destroy of the product's image returns or throws.
DeleteDestroy(r) ==
    /\ r \in InFlight /\ r.op = "delete" /\ r.pc = "destroy"
    /\ \E ok \in BOOLEAN :
         LET r2 == [r EXCEPT !.destroyed = IF ok THEN "ok" ELSE "failed"]
         IN  /\ assets' = IF ok THEN assets \ {AssetKey(PublicIdOf(r.doc[1].image))}
                                ELSE assets
             /\ IF DestroyAborts(ok)
                   THEN /\ reqs' = Drop(r)
                        /\ resp' = RespOf(r2, 500, "destroy failed", <<>>)
                   ELSE /\ reqs' = Replace(r, [r2 EXCEPT !.pc = "remove"])
                        /\ resp' = NoResp
    /\ UNCHANGED <<variant, store, nextId, nextAsset, clock, started, hist>>

\* Product.findByIdAndDelete(id): removes the document and returns it, or null.
FindByIdAndDelete(s, id) ==
    [removed |-> IF id \in DOMAIN s THEN <<s[id]>> ELSE <<>>,
     store   |-> [i \in DOMAIN s \ {id} |-> s[i]]]

\* Image router: findByIdAndDelete answers; the handler sends 200 with what
\* it returned.
DeleteRemove(r) ==
    /\ r \in InFlight /\ r.op = "delete" /\ r.pc = "remove"
    /\ LET res == FindByIdAndDelete(store, r.id)
       IN  /\ store' = res.store
           /\ resp' = RespOf(r, 200, "", res.removed)
    /\ reqs' = Drop(r)
    /\ UNCHANGED <<variant, assets, nextId, nextAsset, clock, started, hist>>

\* Plain router: findByIdAndDelete is the handler's only await.
DeletePlain(id) ==
    /\ variant = "plain"
    /\ started < MaxReq
    /\ LET res == FindByIdAndDelete(store, id)
       IN  IF NotFound(res.removed)
              THEN /\ resp' = Resp("delete", 404, "Product not found", id, <<>>)
                   /\ UNCHANGED store
              ELSE /\ store' = res.store
                   /\ resp' = Resp("delete", 200, "", id, res.removed)
    /\ started' = started + 1
    /\ UNCHANGED <<variant, assets, nextId, nextAsset, clock, reqs, hist>>

\* ------------------------------------------------------- GET /products
\* sort({ createdAt: 1 }): oldest first.
InSortOrderAscending(a, b) == a.createdAt <= b.createdAt

\* sort({ createdAt: -1 }): a may come before b.
InSortOrder(a, b) == a.createdAt >= b.createdAt

\* The orders Product.find().sort({ createdAt: -1 }) may return the stored
\* documents in; documents with equal createdAt come in either order.
Listings(s) ==
    LET n == Cardinality(DOMAIN s)
    IN  { [k \in 1 .. n |-> [id |-> f[k], doc |-> s[f[k]]]] :
            f \in { g \in [1 .. n -> DOMAIN s] :
                      /\ \A i, j \in 1 .. n : i # j => g[i] # g[j]
                      /\ \A i, j \in 1 .. n : i < j => InSortOrder(s[g[i]], s[g[j]]) } }

GetProducts ==
    /\ \E l \in Listings(store) : resp' = [Resp("get", 200, "", 0, <<>>) EXCEPT !.list = l]
    /\ UNCHANGED <<variant, store, assets, nextId, nextAsset, clock, reqs, started, hist>>

\* ------------------------------------------------------------------ next
Next ==
    \/ \E b \in Bodies, file \in Files : PostInvalid(b, file)
    \/ \E b \in Bodies : PostBeginUpload(b)
    \/ \E r \in InFlight : PostUpload(r)
    \/ \E b \in Bodies : PostConstruct(b)
    \/ \E r \in InFlight : PostSave(r)
    \/ \E b \in Bodies : PutInvalid(b)
    \/ \E id \in Ids, b \in Bodies, file \in Files : PutFind(id, b, file)
    \/ \E r \in InFlight : PutDestroy(r)
    \/ \E r \in InFlight : PutUpload(r)
    \/ \E r \in InFlight : PutSave(r)
    \/ \E id \in Ids : DeleteFind(id)
    \/ \E r \in InFlight : DeleteDestroy(r)
    \/ \E r \in InFlight : DeleteRemove(r)
    \/ \E id \in Ids : DeletePlain(id)
    \/ GetProducts

Spec == Init /\ [][Next]_vars

\* ----------------------------------------------------------------- claims
Round2HalfUp(numer, denom) == (numer * 2 + denom) \div (denom * 2)

DerivedFieldsHold(d) ==
    /\ d.gstPercentage = (IF d.gstEnabled THEN 5 ELSE 0)
    /\ d.gstAmount = (IF d.gstEnabled THEN Round2HalfUp(d.sellPrice * 5, 100) ELSE 0)
    /\ d.totalPrice = d.sellPrice + d.gstAmount

\* C1: in every reachable state every stored product satisfies the three
\* derived-field equations: gstPercentage is 5 if gstEnabled else 0, gstAmount
\* is round2(sellPrice * 0.05) if gstEnabled else 0, and totalPrice is
\* round2(sellPrice + gstAmount).
C1_DerivedFields == \A id \in DOMAIN store : DerivedFieldsHold(store[id])

\* C2: a step in which a request answers after its upload failed sends 400
\* 'Image upload failed' and leaves the collection as it was: a failed create
\* adds no record and a failed update changes no field of the record.
C2_UploadFailureAborts ==
    [][resp'.upload = "failed" =>
          /\ resp'.status = 400
          /\ resp'.err = "Image upload failed"
          /\ store' = store]_vars

\* C2 witness: an update with a new image has just failed at the upload, and
\* the record it was to change is stored, with its image reference.
C2_Witness ==
    /\ resp.op = "put" /\ resp.upload = "failed" /\ resp.status = 400
    /\ resp.id \in DOMAIN store
    /\ store[resp.id].image # NoImage

ImageExists(d) == d.image # NoImage => AssetKey(PublicIdOf(d.image)) \in assets

\* C3: the asset of every stored product with an image reference exists in
\* the asset host.  Stated for the states with no request in flight, where
\* no delete or replacement is half done.
C3_ImageAssetExists ==
    reqs = EmptyBag => \A id \in DOMAIN store : ImageExists(store[id])

\* C4: a failed destroy call never fails the record operation.  An update
\* that tried to destroy the old asset goes on to the upload, and once the
\* upload succeeded and the record is still there it answers 200 and the
\* record's image is the new asset's URL; a delete that tried to destroy the
\* asset answers 200 and the record is gone.  An update awaiting its upload
\* has already tried to destroy the image of the record it loaded.
C4_DestroyFailureSwallowed ==
    /\ (resp.op = "put" /\ resp.destroyed # "none") =>
          /\ resp.upload # "none"
          /\ (resp.upload = "ok" /\ resp.id \in DOMAIN store) =>
                /\ resp.status = 200
                /\ resp.url # NoImage
                /\ store[resp.id].image = resp.url
    /\ (resp.op = "delete" /\ resp.destroyed # "none") =>
          /\ resp.status = 200
          /\ resp.id \notin DOMAIN store
    /\ \A r \in InFlight :
          (r.op = "put" /\ r.pc = "upload" /\ r.doc[1].image # NoImage) =>
              r.destroyed # "none"

\* C4 witness: an update whose destroy call failed has answered 200 and the
\* record holds the new image.
C4_Witness ==
    /\ resp.op = "put" /\ resp.destroyed = "failed" /\ resp.upload = "ok"
    /\ resp.status = 200
    /\ store[resp.id].image = resp.url

\* The field rules as the claim states them.
ViolatesFieldRules(b) ==
    \/ Trim(b.itemName) = <<>>
    \/ ~(b.sellPrice.num /\ b.sellPrice.v >= 0)
    \/ b.type \notin {"Veg", "Non-Veg", "Beverage"}
    \/ (b.primaryUnit # Absent /\ b.primaryUnit[1] \notin {"piece", "kg", "gram", ""})

\* C5: a create is rejected with a validation error exactly when its payload
\* violates a field rule, the type rule allowing Veg, Non-Veg and Beverage.
C5_ValidationExact ==
    resp.op = "post" => ((resp.err = "validation") <=> ViolatesFieldRules(resp.body[1]))

\* C6: no two stored products have the same barcode, and every stored
\* product has the barcode and createdAt it was inserted with.
C6_BarcodeUniqueAndFixed ==
    /\ \A i, j \in DOMAIN store : i # j => store[i].barcode # store[j].barcode
    /\ \A i \in DOMAIN store :
          /\ store[i].barcode = hist[i].barcode
          /\ store[i].createdAt = hist[i].createdAt

\* C6 witness: two products are stored and an update of one of them has just
\* answered 200.
C6_Witness ==
    /\ Cardinality(DOMAIN store) = 2
    /\ resp.op = "put" /\ resp.status = 200
    /\ resp.id \in DOMAIN store
    /\ hist[resp.id].updated

\* C7: every DELETE response with status 200 carries the record the request
\* removed, never an absent product.
C7_DeleteReturnsRemoved ==
    (resp.op = "delete" /\ resp.status = 200) => resp.product # <<>>

\* C8: a delete received for an id that is not in the store answers 404,
\* changes no stored product, calls the asset host for nothing and leaves no
\* work pending.
C8_DeleteUnknownId ==
    [][\A id \in Ids :
          ((DeleteFind(id) \/ DeletePlain(id)) /\ id \notin DOMAIN store) =>
              /\ resp'.op = "delete" /\ resp'.status = 404 /\ resp'.id = id
              /\ store' = store
              /\ assets' = assets
              /\ reqs' = reqs]_vars

\* C8 witness: a delete of an unknown id has answered 404 while products,
\* one of them with an image, are stored.
C8_Witness ==
    /\ resp.op = "delete" /\ resp.status = 404
    /\ resp.id \notin DOMAIN store
    /\ \E i \in DOMAIN store : store[i].image # NoImage

\* C9: GET /products returns the stored products, each once, from the
\* newest createdAt to the oldest, createdAt being the value the product was
\* created with, whatever updates it has had since.
C9_ListNewestFirst ==
    resp.op = "get" =>
        LET l == resp.list
        IN  /\ { l[k].id : k \in DOMAIN l } = DOMAIN store
            /\ Len(l) = Cardinality(DOMAIN store)
            /\ \A k \in DOMAIN l : l[k].doc = store[l[k].id]
            /\ \A i, j \in DOMAIN l :
                  i < j => hist[l[i].id].createdAt >= hist[l[j].id].createdAt

\* C9 witness: a listing of two products created at different times, the
\* older of which has been updated since.
C9_Witness ==
    /\ resp.op = "get" /\ Len(resp.list) = 2
    /\ resp.list[1].doc.createdAt > resp.list[2].doc.createdAt
    /\ hist[resp.list[2].id].updated

\* C10: when an update has answered 200 and no other update of the same id
\* is in flight, every mutable field of the stored record is the one this
\* update computed.
C10_LastWriteWins ==
    (/\ resp.op = "put" /\ resp.status = 200
     /\ resp.id \in DOMAIN store
     /\ ~ \E r \in InFlight : r.op = "put" /\ r.id = resp.id) =>
        \A f \in MutableFields : store[resp.id][f] = resp.product[1][f]

====
